---- MODULE Spec2Model ----
(***************************************************************************)
(* Reshaping operations of the "Tidy Data" chapter (data-tidy.ipynb):      *)
(* DataFrame.melt, pandas.wide_to_long, DataFrame.stack, unstack, pivot,   *)
(* shift and reset_index, as the notebook's cells call them.               *)
(*                                                                         *)
(* A frame is a record                                                     *)
(*   names   : the names of the row-index levels                           *)
(*   index   : the row labels, one tuple of level values per row           *)
(*   cnames  : the names of the column-index levels                        *)
(*   columns : the column labels, one tuple of level values per column     *)
(*   values  : the cells, row by row                                       *)
(* A Series is a frame with the single column label <<>>.  Every label and *)
(* every cell is a string; NaN is the missing marker.                      *)
(***************************************************************************)
EXTENDS Integers, Sequences, FiniteSets, Bags, TLC

VARIABLES cell, df, args, res, out, err

vars == <<cell, df, args, res, out, err>>

\* Largest number of rows of a frame a construction cell builds.
MaxRows == 2

NaN == "NaN"
None == "None"

\* Sort order of the labels that unstack and pivot sort (Python's order on str).
Order == <<"0", "1", "1970", "1980", "A", "B", "None", "a", "b", "bar", "baz",
           "d1", "d2", "first", "height", "one", "p", "q", "two", "weight">>

Rank(s) == CHOOSE k \in 1..Len(Order) : Order[k] = s

\* Python's tuple comparison a < b on label tuples of equal length.
TupleLess(a, b) ==
    \E k \in 1..Len(a) :
        /\ \A m \in 1..(k - 1) : a[m] = b[m]
        /\ Rank(a[k]) < Rank(b[k])

RECURSIVE SortSet(_)
SortSet(S) ==
    IF S = {} THEN <<>>
    ELSE LET lo == CHOOSE x \in S : \A y \in S \ {x} : TupleLess(x, y)
         IN  <<lo>> \o SortSet(S \ {lo})

Range(s) == {s[k] : k \in 1..Len(s)}

\* Sequences over S of length at most n.
SeqUpTo(S, n) == UNION {[1..k -> S] : k \in 0..n}

\* Sequences over S without repetition.
Arrangements(S) ==
    {s \in SeqUpTo(S, Cardinality(S)) : \A a, b \in 1..Len(s) : s[a] = s[b] => a = b}

\* pandas.RangeIndex(n): the default row labels 0 .. n-1.
RangeIndex(n) == [k \in 1..n |-> <<ToString(k - 1)>>]

\* pd.DataFrame(dict of columns): default index, one-level columns.
DataFrame(cols, rows) ==
    [names   |-> <<None>>,
     index   |-> RangeIndex(Len(rows)),
     cnames  |-> <<None>>,
     columns |-> [k \in 1..Len(cols) |-> <<cols[k]>>],
     values  |-> rows]

NoFrame == [names |-> <<>>, index |-> <<>>, cnames |-> <<>>, columns |-> <<>>,
            values |-> <<>>]

Ok(frame) == [err |-> "none", frame |-> frame]
Raise(e) == [err |-> e, frame |-> NoFrame]

HasColumn(frame, name) == <<name>> \in Range(frame.columns)

\* frame.columns.get_loc(name)
ColPos(frame, name) == CHOOSE k \in 1..Len(frame.columns) : frame.columns[k] = <<name>>

\* frame[name]: the cells of one column, in row order.
Column(frame, name) ==
    [i \in 1..Len(frame.values) |-> frame.values[i][ColPos(frame, name)]]

(***************************************************************************)
(* DataFrame.melt(id_vars, value_vars, var_name, value_name).  Row         *)
(* k = j*N + i of the result is row i of the frame under value column j:   *)
(* the id columns are tiled K times and the value columns are laid end to  *)
(* end.                                                                    *)
(***************************************************************************)
\* The columns melt collapses: value_vars as given (an empty list is a list,
\* not an absent argument).
melted_columns_falsy(frame, id_vars, value_vars) ==
    IF value_vars = <<>>
    THEN LET rest == SelectSeq(frame.columns, LAMBDA c : c[1] \notin Range(id_vars))
         IN  [k \in 1..Len(rest) |-> rest[k][1]]
    ELSE value_vars

melted_columns(frame, id_vars, value_vars) == value_vars

\* Row k of the melted frame, the value columns laid row by row instead of
\* column by column.
melt_row_rowmajor(frame, id_vars, value_vars, k) ==
    LET K == Len(value_vars)
        i == ((k - 1) \div K) + 1
        j == ((k - 1) % K) + 1
    IN  [c \in 1..Len(id_vars) |-> frame.values[i][ColPos(frame, id_vars[c])]]
        \o <<value_vars[j], frame.values[i][ColPos(frame, value_vars[j])]>>

\* Row k of the melted frame: k = (j-1)*N + i for value column j and row i.
melt_row(frame, id_vars, value_vars, k) ==
    LET N == Len(frame.values)
        j == ((k - 1) \div N) + 1
        i == ((k - 1) % N) + 1
    IN  [c \in 1..Len(id_vars) |-> frame.values[i][ColPos(frame, id_vars[c])]]
        \o <<value_vars[j], frame.values[i][ColPos(frame, value_vars[j])]>>

melt(frame, id_vars, value_vars, var_name, value_name) ==
    IF \E c \in Range(id_vars) \cup Range(value_vars) : ~HasColumn(frame, c)
    THEN Raise("KeyError")
    ELSE
    LET vv == melted_columns(frame, id_vars, value_vars)
        N == Len(frame.values)
        K == Len(vv)
        mcolumns == id_vars \o <<var_name, value_name>>
    IN  Ok(DataFrame(mcolumns, [k \in 1..(N * K) |-> melt_row(frame, id_vars, vv, k)]))

\* t with position p removed / with v inserted at position p.
Remove(t, p) == [k \in 1..(Len(t) - 1) |-> IF k < p THEN t[k] ELSE t[k + 1]]
Insert(t, p, v) ==
    [k \in 1..(Len(t) + 1) |-> IF k < p THEN t[k] ELSE IF k = p THEN v ELSE t[k - 1]]

\* A level number as pandas resolves it: 0-based from the outside, negative from
\* the inside; the result is a 1-based position among n levels.
LevelNumber_offbyone(level, n) == IF level < 0 THEN n + level ELSE level + 1

LevelNumber(level, n) == IF level < 0 THEN n + level + 1 ELSE level + 1

\* set_index with the key columns taken in reverse order.
set_index_reversed(frame, keys, value) ==
    [names   |-> keys,
     index   |-> [i \in 1..Len(frame.values) |->
                    [k \in 1..Len(keys) |->
                       frame.values[i][ColPos(frame, keys[Len(keys) + 1 - k])]]],
     cnames  |-> <<>>,
     columns |-> << <<>> >>,
     values  |-> [i \in 1..Len(frame.values) |-> <<frame.values[i][ColPos(frame, value)]>>]]

\* frame.set_index(keys)[value]: a Series labelled by the key columns.
set_index(frame, keys, value) ==
    [names   |-> keys,
     index   |-> [i \in 1..Len(frame.values) |->
                    [k \in 1..Len(keys) |-> frame.values[i][ColPos(frame, keys[k])]]],
     cnames  |-> <<>>,
     columns |-> << <<>> >>,
     values  |-> [i \in 1..Len(frame.values) |-> <<frame.values[i][ColPos(frame, value)]>>]]

(***************************************************************************)
(* DataFrame.stack(level), dropna=True, on one-level columns: every cell   *)
(* becomes a row of a Series labelled (row label, column label), row by    *)
(* row, and the rows whose value is missing are dropped.                   *)
(***************************************************************************)
stack(frame, level) ==
    IF LevelNumber(level, Len(frame.cnames)) # 1
    THEN Raise("IndexError")
    ELSE
    LET N == Len(frame.index)
        C == Len(frame.columns)
        all == [k \in 1..(N * C) |->
                  LET i == ((k - 1) \div C) + 1
                      c == ((k - 1) % C) + 1
                  IN  [label |-> frame.index[i] \o frame.columns[c],
                       value |-> frame.values[i][c]]]
        kept == SelectSeq(all, LAMBDA e : e.value # NaN)
    IN  Ok([names   |-> frame.names \o frame.cnames,
            index   |-> [k \in 1..Len(kept) |-> kept[k].label],
            cnames  |-> <<>>,
            columns |-> << <<>> >>,
            values  |-> [k \in 1..Len(kept) |-> <<kept[k].value>>]])

(***************************************************************************)
(* unstack(level) of a frame or Series.  With several row levels, the      *)
(* chosen level moves to the innermost column level: row and column labels *)
(* are sorted, a cell no input row addresses is NaN, and a repeated row    *)
(* label raises ValueError("Index contains duplicate entries").  With one  *)
(* row level the result is the Series frame.T.stack(dropna=False).         *)
(***************************************************************************)
\* No check: a repeated row label is never reported.
has_duplicates_off(index) == FALSE

\* The index holds some row label twice.
has_duplicates(index) ==
    \E a, b \in 1..Len(index) : a # b /\ index[a] = index[b]

\* The cell lookup with the unstacked label always put back outermost.
unstack_cell_misplaced(frame, lev, r, c, v) ==
    LET key == Insert(r, 1, v)
        N == Len(frame.index)
    IN  IF \E i \in 1..N : frame.index[i] = key
        THEN frame.values[CHOOSE i \in 1..N : frame.index[i] = key][c]
        ELSE NaN

\* The cell of the unstacked frame at row label r and column (c, v): the value
\* of the input row labelled r with v at level lev, NaN when there is none.
unstack_cell(frame, lev, r, c, v) ==
    LET key == Insert(r, lev, v)
        N == Len(frame.index)
    IN  IF \E i \in 1..N : frame.index[i] = key
        THEN frame.values[CHOOSE i \in 1..N : frame.index[i] = key][c]
        ELSE NaN

\* frame.T.stack() with the missing cells dropped.
transpose_stack_dropna(frame) ==
    LET N == Len(frame.index)
        C == Len(frame.columns)
        all == [k \in 1..(C * N) |->
                  [label |-> frame.columns[((k - 1) \div N) + 1] \o frame.index[((k - 1) % N) + 1],
                   value |-> frame.values[((k - 1) % N) + 1][((k - 1) \div N) + 1]]]
        kept == SelectSeq(all, LAMBDA e : e.value # NaN)
    IN  [names   |-> frame.cnames \o frame.names,
         index   |-> [k \in 1..Len(kept) |-> kept[k].label],
         cnames  |-> <<>>,
         columns |-> << <<>> >>,
         values  |-> [k \in 1..Len(kept) |-> <<kept[k].value>>]]

\* frame.T.stack(dropna=False): the Series of all cells, column by column.
transpose_stack(frame) ==
    LET N == Len(frame.index)
        C == Len(frame.columns)
    IN  [names   |-> frame.cnames \o frame.names,
         index   |-> [k \in 1..(C * N) |->
                        frame.columns[((k - 1) \div N) + 1] \o frame.index[((k - 1) % N) + 1]],
         cnames  |-> <<>>,
         columns |-> << <<>> >>,
         values  |-> [k \in 1..(C * N) |->
                        <<frame.values[((k - 1) % N) + 1][((k - 1) \div N) + 1]>>]]

unstack(frame, level) ==
    LET L == Len(frame.names)
        lev == LevelNumber(level, L)
        N == Len(frame.index)
        C == Len(frame.columns)
    IN
    IF lev < 1 \/ lev > L THEN Raise("IndexError")
    ELSE IF L = 1 THEN Ok(transpose_stack(frame))
    ELSE IF has_duplicates(frame.index) THEN Raise("ValueError")
    ELSE
    LET rows == SortSet({Remove(frame.index[i], lev) : i \in 1..N})
        labels == SortSet({<<frame.index[i][lev]>> : i \in 1..N})
        V == Len(labels)
    IN  Ok([names   |-> Remove(frame.names, lev),
            index   |-> rows,
            cnames  |-> frame.cnames \o <<frame.names[lev]>>,
            columns |-> [k \in 1..(C * V) |->
                           frame.columns[((k - 1) \div V) + 1] \o labels[((k - 1) % V) + 1]],
            values  |-> [i \in 1..Len(rows) |->
                           [k \in 1..(C * V) |->
                              unstack_cell(frame, lev, rows[i], ((k - 1) \div V) + 1,
                                           labels[((k - 1) % V) + 1][1])]]])

(***************************************************************************)
(* DataFrame.pivot(index, columns, values):                                *)
(* frame.set_index([index, columns])[values].unstack(columns).             *)
(***************************************************************************)
pivot(frame, index, columns, values) ==
    IF \E c \in {index, columns, values} : ~HasColumn(frame, c)
    THEN Raise("KeyError")
    ELSE unstack(set_index(frame, <<index, columns>>, values), 1)

\* DataFrame.shift(periods) for periods >= 0: every column moves down by
\* `periods` rows under the same row labels, NaN entering at the top.
shift(frame, periods) ==
    [frame EXCEPT !.values =
        [i \in 1..Len(frame.values) |->
            IF i <= periods
            THEN [c \in 1..Len(frame.columns) |-> NaN]
            ELSE frame.values[i - periods]]]

\* reset_index(): the row levels become leading columns under a default index;
\* the value column of a Series is named 0.
reset_index(frame) ==
    DataFrame(frame.names \o [c \in 1..Len(frame.columns) |->
                                 IF frame.columns[c] = <<>> THEN "0" ELSE frame.columns[c][1]],
              [i \in 1..Len(frame.index) |-> frame.index[i] \o frame.values[i]])

\* The numeric suffixes that column names carry here (the default suffix
\* pattern of wide_to_long is \d+).
Suffixes == <<"1970", "1980">>

\* get_var_names: the columns named stub followed by a numeric suffix, in
\* column order.
get_var_names(frame, stub) ==
    SelectSeq(frame.columns, LAMBDA c : \E k \in 1..Len(Suffixes) : c[1] = stub \o Suffixes[k])

\* The suffix left of a matched column name once the stub is stripped.
SuffixOf(c, stub) == Suffixes[CHOOSE k \in 1..Len(Suffixes) : c[1] = stub \o Suffixes[k]]

\* s without the entries that occurred earlier in it.
Unique(s) ==
    LET first(k) == \A m \in 1..(k - 1) : s[m] # s[k]
        pos == SelectSeq([k \in 1..Len(s) |-> k], first)
    IN  [k \in 1..Len(pos) |-> s[pos[k]]]

RECURSIVE Flatten(_)
Flatten(ss) == IF ss = <<>> THEN <<>> ELSE Head(ss) \o Flatten(Tail(ss))

\* The unmatched columns dropped.
unmatched_columns_dropped(frame, flat, i) == <<>>

\* id_vars less i: the columns that match no stub and are not the id column.
unmatched_columns(frame, flat, i) ==
    SelectSeq(frame.columns, LAMBDA c : c \notin Range(flat) /\ c # <<i>>)

\* The stub's value looked up by id alone, whatever the suffix.
stub_cell_anysuffix(label, value, lab) ==
    IF \E k \in 1..Len(label) : label[k][1] = lab[1]
    THEN value[CHOOSE k \in 1..Len(label) : label[k][1] = lab[1]]
    ELSE NaN

\* The outer join's cell for one melted stub (its labels and values) at the
\* row label lab: the stub's value there, NaN when the stub has no such row.
stub_cell(label, value, lab) ==
    IF \E k \in 1..Len(label) : label[k] = lab
    THEN value[CHOOSE k \in 1..Len(label) : label[k] = lab]
    ELSE NaN

(***************************************************************************)
(* pandas.wide_to_long(df, stubnames, i, j) with one id column i.  Each    *)
(* stub's columns are melted on i and labelled (i, suffix); the melted     *)
(* stubs are outer-joined on that label, and the columns that match no     *)
(* stub are joined back on i.  A stub naming a column, or a repeated id,   *)
(* raises ValueError.                                                      *)
(***************************************************************************)
wide_to_long(frame, stubnames, i, j) ==
    IF ~HasColumn(frame, i) THEN Raise("KeyError")
    ELSE IF \E s \in Range(stubnames) : HasColumn(frame, s) THEN Raise("ValueError")
    ELSE IF has_duplicates(Column(frame, i)) THEN Raise("ValueError")
    ELSE
    LET N == Len(frame.values)
        value_vars == [s \in 1..Len(stubnames) |-> get_var_names(frame, stubnames[s])]
        flat == Flatten(value_vars)
        id_vars == unmatched_columns(frame, flat, i)
        melted(s) ==
            LET m == melt(frame, <<i>>, [k \in 1..Len(value_vars[s]) |-> value_vars[s][k][1]],
                          j, stubnames[s]).frame
            IN  [label |-> [k \in 1..Len(m.values) |->
                              <<m.values[k][1],
                                SuffixOf(<<m.values[k][2]>>, stubnames[s])>>],
                 value |-> [k \in 1..Len(m.values) |-> m.values[k][3]]]
        labels == Unique(Flatten([s \in 1..Len(stubnames) |-> melted(s).label]))
        stubcell(s, lab) == stub_cell(melted(s).label, melted(s).value, lab)
        idrow(lab) == CHOOSE r \in 1..N : Column(frame, i)[r] = lab[1]
    IN  Ok([names   |-> <<i, j>>,
            index   |-> labels,
            cnames  |-> <<None>>,
            columns |-> id_vars \o [s \in 1..Len(stubnames) |-> <<stubnames[s]>>],
            values  |-> [k \in 1..Len(labels) |->
                           [c \in 1..Len(id_vars) |->
                              frame.values[idrow(labels[k])][ColPos(frame, id_vars[c][1])]]
                           \o [s \in 1..Len(stubnames) |-> stubcell(s, labels[k])]]])

\* ---------------------------------------------------------------------------
\* Cells of the notebook.

\* Columns of the melt example and the values its cells take here.
MeltColumns == <<"first", "height", "weight">>
MeltDomain(c) ==
    IF c = "first" THEN {"p", "q"} ELSE IF c = "height" THEN {"a", "b"} ELSE {"a", NaN}
MeltFrames ==
    {DataFrame(MeltColumns, rows) :
        rows \in SeqUpTo({r \in [1..Len(MeltColumns) -> {"p", "q", "a", "b", NaN}] :
                            \A c \in 1..Len(MeltColumns) : r[c] \in MeltDomain(MeltColumns[c])},
                         MaxRows)}

\* The wide_to_long example: some of the stub columns and of X, then id.  A
\* cell holds its column name and row number, so that no two cells agree.
StubColumns == <<"A1970", "A1980", "B1970", "X">>
StubFrames ==
    {DataFrame(cols \o <<"id">>,
               [r \in 1..Len(ids) |->
                  [c \in 1..Len(cols) |-> cols[c] \o "_" \o ToString(r - 1)] \o <<ids[r]>>]) :
        cols \in {SelectSeq(StubColumns, LAMBDA c : c \in S) : S \in SUBSET Range(StubColumns)},
        ids \in SeqUpTo({"0", "1"}, MaxRows)}

\* The stack example: row labels (first, second), columns A and B.
MultiIndexFrames ==
    UNION {{[names   |-> <<"first", "second">>,
             index   |-> idx,
             cnames  |-> <<None>>,
             columns |-> << <<"A">>, <<"B">> >>,
             values  |-> vals] :
               idx \in [1..n -> {"bar", "baz"} \X {"one", "two"}],
               vals \in [1..n -> {"x", NaN} \X {"x", "y"}]} : n \in 0..MaxRows}

\* The pivot example: a long table of (date, variable, category, value).
LongColumns == <<"date", "variable", "category", "value">>
LongFrames ==
    {DataFrame(LongColumns, rows) :
        rows \in SeqUpTo({"d1", "d2"} \X {"A", "B"} \X {"type1", "type2"} \X {"x", "y", NaN}, MaxRows)}

NoArgs == [op |-> "none"]

Init ==
    /\ cell = "start"
    /\ df = NoFrame
    /\ args = NoArgs
    /\ res = NoFrame
    /\ out = NoFrame
    /\ err = "none"

\* A call's outcome: the returned frame is kept (res) and displayed (out); a
\* raised exception leaves no value.
Returns(r, shown) ==
    /\ res' = r.frame
    /\ out' = IF r.err = "none" THEN shown ELSE NoFrame
    /\ err' = r.err

\* Cell 0f9fbf5a: df = pd.DataFrame(...); df.melt(id_vars, var_name, value_vars).
MeltCell ==
    /\ cell = "start"
    /\ \E frame \in MeltFrames, ids \in Arrangements(Range(MeltColumns)),
          var_name \in {"quantity", "variable"} :
       \E vals \in Arrangements(Range(MeltColumns) \ Range(ids)) :
          LET r == melt(frame, ids, vals, var_name, "value")
          IN  /\ df' = frame
              /\ args' = [op |-> "melt", id_vars |-> ids, value_vars |-> vals,
                          var_name |-> var_name]
              /\ Returns(r, r.frame)
    /\ cell' = "melt"

\* pivot(melt(T, ids, vals, var_name, "value"), id, var_name, "value") on the
\* melted frame, for an id column whose values are not missing.
PivotMelted ==
    /\ cell = "melt"
    /\ err = "none"
    /\ \E id \in Range(args.id_vars) :
          /\ NaN \notin Range(Column(df, id))
          /\ LET r == pivot(res, id, args.var_name, "value")
             IN  /\ args' = [op |-> "melt_pivot", id_vars |-> args.id_vars,
                             value_vars |-> args.value_vars,
                             var_name |-> args.var_name, index |-> id]
                 /\ Returns(r, r.frame)
    /\ cell' = "melt_pivot"
    /\ UNCHANGED df

\* Cell 293768c1: the frame with stub columns.
StubFrameCell ==
    /\ cell = "start"
    /\ df' \in StubFrames
    /\ cell' = "stubs"
    /\ UNCHANGED <<args, res, out, err>>

\* Cell a9ca2fa8: pd.wide_to_long(df, stubnames, i="id", j="year").
WideToLongCell ==
    /\ cell = "stubs"
    /\ \E stubnames \in Arrangements({"A", "B", "X"}) \ {<<>>} :
          LET r == wide_to_long(df, stubnames, "id", "year")
          IN  /\ args' = [op |-> "wide_to_long", stubnames |-> stubnames]
              /\ Returns(r, r.frame)
    /\ cell' = "wide_to_long"
    /\ UNCHANGED df

\* Cell 2b791dd1: the frame with a two-level row index.
MultiIndexCell ==
    /\ cell = "start"
    /\ df' \in MultiIndexFrames
    /\ cell' = "multiindex"
    /\ UNCHANGED <<args, res, out, err>>

\* Cell d25eb012: df.stack() (the stacked Series is kept in res).
StackCell ==
    /\ cell = "multiindex"
    /\ \E level \in {-1, 0} :
          LET r == stack(df, level)
          IN  /\ args' = [op |-> "stack", level |-> level]
              /\ Returns(r, r.frame)
    /\ cell' = "stack"
    /\ UNCHANGED df

\* Cell b6742a54: unstack(level) of the stacked Series.
UnstackCell ==
    /\ cell = "stack"
    /\ err = "none"
    /\ \E level \in {-1, 0, 1} :
          LET r == unstack(res, level)
          IN  /\ args' = [op |-> "unstack", level |-> args.level, unlevel |-> level]
              /\ Returns(r, r.frame)
    /\ cell' = "unstack"
    /\ UNCHANGED df

\* Cell 405da609: the long table.
LongFrameCell ==
    /\ cell = "start"
    /\ df' \in LongFrames
    /\ cell' = "long"
    /\ UNCHANGED <<args, res, out, err>>

\* Cell 04f2bd28: df.pivot(index="date", columns="variable", values="value").shift(1).
PivotCell ==
    /\ cell = "long"
    /\ LET r == pivot(df, "date", "variable", "value")
       IN  /\ args' = [op |-> "pivot"]
           /\ Returns(r, shift(r.frame, 1))
    /\ cell' = "pivot"
    /\ UNCHANGED df

\* Cell 841c4821: .unstack().reset_index() applied to the pivoted frame.
UnstackResetCell ==
    /\ cell = "pivot"
    /\ err = "none"
    /\ LET r == unstack(res, -1)
       IN  /\ args' = [op |-> "unstack_reset"]
           /\ Returns(r, reset_index(r.frame))
    /\ cell' = "unstack_reset"
    /\ UNCHANGED df

Next ==
    \/ MeltCell
    \/ PivotMelted
    \/ StubFrameCell
    \/ WideToLongCell
    \/ MultiIndexCell
    \/ StackCell
    \/ UnstackCell
    \/ LongFrameCell
    \/ PivotCell
    \/ UnstackResetCell

Spec == Init /\ [][Next]_vars

\* ---------------------------------------------------------------------------
\* Vocabulary of the properties.

Rows(frame) == 1..Len(frame.values)
Cols(frame) == 1..Len(frame.columns)

\* Some entry of the sequence occurs in it twice.
Repeats(s) == \E a, b \in 1..Len(s) : a # b /\ s[a] = s[b]

\* How often v occurs among the cells `rows` (a sequence of rows).
Count(rows, v) ==
    Cardinality({p \in UNION {{<<i, c>> : c \in 1..Len(rows[i])} : i \in 1..Len(rows)} :
                    rows[p[1]][p[2]] = v})

NonMissing(rows) == UNION {Range(rows[i]) : i \in 1..Len(rows)} \ {NaN}

\* The two cell collections hold the same multiset of non-missing values.
SameValues(a, b) ==
    \A v \in NonMissing(a) \cup NonMissing(b) : Count(a, v) = Count(b, v)

\* The cells of the columns `names` of a frame with one-level columns.
Restrict(frame, names) ==
    [i \in 1..Len(frame.values) |->
        [k \in 1..Len(names) |-> frame.values[i][ColPos(frame, names[k])]]]

\* The (row label, column label) -> value mapping of a frame, as a set.
Mapping(frame) ==
    {<<frame.index[i], frame.columns[c], frame.values[i][c]>> :
        i \in Rows(frame), c \in Cols(frame)}

\* Same row labels, same column labels, same value in every cell.
SameTable(a, b) ==
    /\ Range(a.index) = Range(b.index)
    /\ Range(a.columns) = Range(b.columns)
    /\ Mapping(a) = Mapping(b)

\* The (key column value, column) -> value mapping of the flat frame `frame`
\* keyed by its column `key`, over the columns `names`.
KeyedMapping(frame, key, names) ==
    {<< <<frame.values[i][ColPos(frame, key)]>>, <<n>>, frame.values[i][ColPos(frame, n)]>> :
        i \in Rows(frame), n \in names}

ColumnNames(frame) == {frame.columns[c][1] : c \in Cols(frame)}

\* The (index, columns) key pairs of the rows of a flat frame.
KeyPairs(frame, index, columns) ==
    [i \in 1..Len(frame.values) |->
        <<frame.values[i][ColPos(frame, index)], frame.values[i][ColPos(frame, columns)]>>]

\* C1: melt returns exactly (rows of T) * (number of value columns) rows, also
\* for a frame without rows and for an empty list of value columns.
C1_MeltRowCount ==
    cell = "melt" =>
        /\ err = "none"
        /\ Len(res.values) = Len(df.values) * Len(args.value_vars)
        /\ Len(res.index) = Len(res.values)

C1_Witness ==
    /\ cell = "melt"
    /\ Len(df.values) = 2
    /\ Len(args.value_vars) = 2
    /\ Len(res.values) = 4

C1_WitnessEmpty ==
    /\ cell = "melt"
    /\ Len(df.values) = 2
    /\ args.value_vars = <<>>
    /\ res.values = <<>>

\* The melted frame repeats no (id, variable) pair: it has no rows, or no two
\* rows of T agree on the id column.
NoRepeatedPair ==
    args.value_vars = <<>> \/ ~Repeats(Column(df, args.index))

\* C2 (as stated): whenever the melted frame repeats no (id, variable) pair,
\* pivot(melt(T, ids, vals), id, "variable", "value") succeeds and its
\* (row key, column) -> value mapping is that of T keyed by id, over all of T's
\* other columns (stated here for T with a row and vals not empty).
C2_RoundTripAllColumns ==
    (cell = "melt_pivot" /\ NoRepeatedPair /\ df.values # <<>> /\ args.value_vars # <<>>) =>
        /\ err = "none"
        /\ Mapping(res) = KeyedMapping(df, args.index, ColumnNames(df) \ {args.index})

\* C2 (amended): under the same condition the pivot succeeds and its mapping is
\* that of T keyed by id over the melted columns vals; the columns of T that
\* are neither id nor in vals are not reconstructed.
C2_RoundTripValueColumns ==
    (cell = "melt_pivot" /\ NoRepeatedPair) =>
        /\ err = "none"
        /\ Mapping(res) = KeyedMapping(df, args.index, Range(args.value_vars))

C2_Witness ==
    /\ cell = "melt_pivot"
    /\ err = "none"
    /\ args.var_name = "variable"
    /\ Len(df.values) = 2
    /\ Len(args.value_vars) = 2
    /\ Cardinality(Mapping(res)) = 4
    /\ \E m \in Mapping(res) : m[3] = NaN

\* C3 (as stated): for T with a row, no missing cells and distinct row labels,
\* unstack(stack(T, level=L), level=L) is a table equal to T, for every L.
C3_StackUnstackSameLevel ==
    (/\ cell = "unstack"
     /\ args.unlevel = args.level
     /\ df.values # <<>>
     /\ \A i \in Rows(df) : NaN \notin Range(df.values[i])
     /\ ~Repeats(df.index)) =>
        /\ err = "none"
        /\ SameTable(res, df)

\* C3 (amended): for T with at least one row, without missing cells and with
\* distinct row labels, unstacking the innermost row level (level=-1, where
\* stack put the column labels) of stack(T) gives a table equal to T: same row
\* labels, same column labels, same value in every cell.
C3_StackUnstackInnermost ==
    (/\ cell = "unstack"
     /\ args.unlevel = -1
     /\ df.values # <<>>
     /\ \A i \in Rows(df) : NaN \notin Range(df.values[i])
     /\ ~Repeats(df.index)) =>
        /\ err = "none"
        /\ SameTable(res, df)
        /\ res.names = df.names

C3_Witness ==
    /\ cell = "unstack"
    /\ args.unlevel = -1
    /\ Len(df.values) = 2
    /\ df.index[1] # df.index[2]
    /\ TupleLess(df.index[2], df.index[1])
    /\ \A i \in Rows(df) : NaN \notin Range(df.values[i])
    /\ SameTable(res, df)

\* C4: pivot raises the duplicate-key error and returns no table exactly when
\* some (index, columns) pair occurs in more than one input row (of the long
\* table, or of the melted frame).
C4_PivotDuplicateKey ==
    /\ cell = "pivot" =>
          /\ Repeats(KeyPairs(df, "date", "variable")) <=> err = "ValueError"
          /\ ~Repeats(KeyPairs(df, "date", "variable")) <=> err = "none"
          /\ err # "none" => (res = NoFrame /\ out = NoFrame)
          /\ err = "none" => res # NoFrame
    /\ cell = "melt_pivot" =>
          /\ ~NoRepeatedPair <=> err = "ValueError"
          /\ NoRepeatedPair <=> err = "none"
          /\ err # "none" => (res = NoFrame /\ out = NoFrame)

C4_Witness ==
    /\ cell = "pivot"
    /\ err = "ValueError"
    /\ Len(df.values) = 2
    /\ KeyPairs(df, "date", "variable")[1] = KeyPairs(df, "date", "variable")[2]
    /\ Column(df, "value")[1] # Column(df, "value")[2]
    /\ res = NoFrame

\* C5: a successful pivot has one cell for every combination of a distinct
\* index value and a distinct columns value; the cell holds the input row's
\* value when the combination occurs in the input and NaN when it does not.
C5_PivotCells ==
    (cell = "pivot" /\ err = "none") =>
        LET dates == Range(Column(df, "date"))
            variables == Range(Column(df, "variable"))
            pairs == KeyPairs(df, "date", "variable")
        IN  /\ Range(res.index) = {<<d>> : d \in dates}
            /\ Len(res.index) = Cardinality(dates)
            /\ Range(res.columns) = {<<v>> : v \in variables}
            /\ Len(res.columns) = Cardinality(variables)
            /\ \A i \in Rows(res), c \in Cols(res) :
                  LET key == <<res.index[i][1], res.columns[c][1]>>
                  IN  IF key \in Range(pairs)
                      THEN \E r \in Rows(df) :
                              pairs[r] = key /\ res.values[i][c] = Column(df, "value")[r]
                      ELSE res.values[i][c] = NaN

C5_Witness ==
    /\ cell = "pivot"
    /\ err = "none"
    /\ Len(df.values) = 2
    /\ Len(res.index) = 2
    /\ Len(res.columns) = 2
    /\ NaN \notin Range(Column(df, "value"))
    /\ \E i \in Rows(res), c \in Cols(res) : res.values[i][c] = NaN

\* The frame a cell's reshape call was applied to.
Input == IF cell = "unstack" THEN stack(df, args.level).frame ELSE df

Reshaped == cell \in {"melt", "wide_to_long", "stack", "unstack", "pivot"} /\ err = "none"

C7_MeltLayout ==
    cell = "melt" =>
        LET N == Len(df.values)
            K == Len(args.value_vars)
            I == Len(args.id_vars)
        IN  /\ res.columns = [c \in 1..(I + 2) |->
                                 <<(args.id_vars \o <<args.var_name, "value">>)[c]>>]
            /\ Len(res.values) = N * K
            /\ \A i \in 1..N, j \in 1..K :
                  LET row == res.values[(j - 1) * N + i]
                  IN  /\ \A c \in 1..I : row[c] = Column(df, args.id_vars[c])[i]
                      /\ row[I + 1] = args.value_vars[j]
                      /\ row[I + 2] = Column(df, args.value_vars[j])[i]

C7_Witness ==
    /\ cell = "melt"
    /\ args.id_vars = <<"first">>
    /\ args.var_name = "quantity"
    /\ args.value_vars = <<"weight", "height">>
    /\ Len(df.values) = 2
    /\ res.values[2] = <<df.values[2][1], "weight", df.values[2][3]>>
    /\ res.values[3] = <<df.values[1][1], "height", df.values[1][2]>>
    /\ df.values[1] # df.values[2]

\* The suffixes under which some stub has a column in df.
FoundSuffixes ==
    {x \in Range(Suffixes) : \E s \in Range(args.stubnames) : HasColumn(df, s \o x)}

\* C8: wide_to_long returns exactly one row for every pair of an id value
\* and a suffix, and in the row of (v, s) the column of each stub holds the
\* value that the input row with id v has in the column named stub+s.
C8_WideToLongRows ==
    cell = "wide_to_long" =>
        /\ (~Repeats(Column(df, "id"))
              /\ \A s \in Range(args.stubnames) : ~HasColumn(df, s)) <=> err = "none"
        /\ err = "none" =>
              /\ Range(res.index) = {<<df.values[i][ColPos(df, "id")], x>> :
                                        i \in Rows(df), x \in FoundSuffixes}
              /\ ~Repeats(res.index)
              /\ \A k \in Rows(res), s \in Range(args.stubnames) :
                    HasColumn(df, s \o res.index[k][2]) =>
                       \E i \in Rows(df) :
                          /\ Column(df, "id")[i] = res.index[k][1]
                          /\ Column(res, s)[k] = Column(df, s \o res.index[k][2])[i]

C8_Witness ==
    /\ cell = "wide_to_long"
    /\ err = "none"
    /\ args.stubnames = <<"A", "B">>
    /\ ColumnNames(df) = {"A1970", "A1980", "B1970", "X", "id"}
    /\ Len(df.values) = 2
    /\ Len(res.index) = 4

\* C9 (as stated): the output columns of wide_to_long are exactly the id
\* column, the suffix-label column and one column per stub (stated here for
\* the calls that return a table with rows).
C9_UnmatchedDropped ==
    (cell = "wide_to_long" /\ err = "none" /\ res.values # <<>>) =>
        Range(res.names) \cup ColumnNames(res) = {"id", "year"} \cup Range(args.stubnames)

\* C9 (amended): the output columns of wide_to_long are the id column, the
\* suffix-label column, one column per stub, and every input column that is
\* neither the id column nor a stub+suffix column of one of the stubs; such a
\* column is kept, each output row carrying the value of the input row with
\* the same id.
C9_UnmatchedKept ==
    (cell = "wide_to_long" /\ err = "none") =>
        LET matched == UNION {Range(get_var_names(df, s)) : s \in Range(args.stubnames)}
            kept == {n \in ColumnNames(df) : n # "id" /\ <<n>> \notin matched}
        IN  /\ res.names = <<"id", "year">>
            /\ ColumnNames(res) = kept \cup Range(args.stubnames)
            /\ Len(res.columns) = Cardinality(ColumnNames(res))
            /\ \A k \in Rows(res), n \in kept :
                  \E i \in Rows(df) :
                     /\ Column(df, "id")[i] = res.index[k][1]
                     /\ Column(res, n)[k] = Column(df, n)[i]

C9_Witness ==
    /\ cell = "wide_to_long"
    /\ err = "none"
    /\ args.stubnames = <<"A", "B">>
    /\ HasColumn(df, "X")
    /\ HasColumn(df, "A1970")
    /\ Len(df.values) = 2
    /\ HasColumn(res, "X")
    /\ Column(res, "X")[1] # Column(res, "X")[2]

\* The rows of a flat frame as (date, variable, value) triples.
Triples(frame, value) ==
    {<<Column(frame, "date")[i], Column(frame, "variable")[i], Column(frame, value)[i]>> :
        i \in Rows(frame)}

\* C10 (as stated): pivot(...).unstack().reset_index() has one row per (date,
\* variable) pair of the long table, with that pair's value, and no other row
\* (stated here for a long table without missing values).
C10_BackToLong ==
    (cell = "unstack_reset" /\ NaN \notin Range(Column(df, "value"))) =>
        /\ err = "none"
        /\ Triples(out, "0") = Triples(df, "value")
        /\ Len(out.values) = Len(df.values)

\* C10 (amended): pivot(...).unstack().reset_index() has one row for every
\* combination of a date and a variable of the long table; the row carries the
\* pair's value when the pair occurs in the long table and NaN when it does not.
C10_BackToLongFilled ==
    cell = "unstack_reset" =>
        LET dates == Range(Column(df, "date"))
            variables == Range(Column(df, "variable"))
            pairs == KeyPairs(df, "date", "variable")
        IN  /\ err = "none"
            /\ ColumnNames(out) = {"variable", "date", "0"}
            /\ Len(out.values) = Cardinality(dates) * Cardinality(variables)
            /\ Triples(out, "0") =
                  {<<df.values[i][1], df.values[i][2], df.values[i][4]>> : i \in Rows(df)}
                  \cup {<<d, v, NaN>> : <<d, v>> \in (dates \X variables) \ Range(pairs)}

C10_Witness ==
    /\ cell = "unstack_reset"
    /\ err = "none"
    /\ Len(df.values) = 2
    /\ Len(out.values) = 4
    /\ NaN \notin Range(Column(df, "value"))

====
